---- MODULE Spec2Model ----
(***************************************************************************)
(* Model of LLMSGenerator.extract_knowledge (llms_generator.py): the map   *)
(* call with its retries, the batch loop over a ThreadPoolExecutor, the    *)
(* per-URL workers (_process_url = _scrape_url then _generate_summary,     *)
(* each wrapped by tenacity), the as_completed collection loop, the        *)
(* inter-batch sleep, and the final sort / document construction.          *)
(*                                                                         *)
(* Indices are 0-based as in the code; urls[k + 1] is the URL of index k.  *)
(* Texts are sequences of tokens, every token a tuple of strings.          *)
(*                                                                         *)
(* Three further programs of the repository are modelled after it, each    *)
(* with its own variables and its own specification:                       *)
(* SyncOrchestrator.run (sync_orchestrator.py), SyncSpec;                  *)
(* SkillOrchestrator.generate_skill (orchestrator.py), GenSpec;            *)
(* ModeConfigurator.register_mode (mode_configurator.py), ModeSpec.        *)
(* A specification leaves the variables of the other programs at rest.     *)
(***************************************************************************)
EXTENDS Integers, Sequences, FiniteSets, TLC

\* ---------------------------------------------------------------- bounds
MaxLinks == 3          \* longest link list the mapping service answers with
MaxBatchSize == 2      \* largest Settings.batch_size explored
MaxWorkers == 2        \* largest Settings.max_workers explored
MaxPages == 3          \* largest max_pages argument explored
MaxRetryAttempts == 4  \* largest Settings.api_retry_attempts explored
MaxNames == 2          \* number of command / skill names explored
MaxCalls == 3          \* longest sequence of register_mode calls explored

\* ------------------------------------------------------ program constants
MapStopAfter == 3      \* stop_after_attempt(3) on _map_website
ScrapeStopAfter == 3   \* stop_after_attempt(3) on _scrape_url
SummaryStopAfter == 3  \* stop_after_attempt(3) on _generate_summary
DefaultRetryAttempts == 3  \* api_retry_attempts: int = 3

\* ------------------------------------------------------------ input pools
RootUrl == "https://docs"
Pool == <<"https://a", "https://b", "https://c", "https://d", "https://e">>
Digits == <<"1", "2", "3", "4", "5">>

\* Link lists the mapping service may answer with: the first n pool URLs,
\* or the same list ending with a repeat of its first URL, so that lists of
\* distinct URLs and lists with a duplicate are both explored.
LinkLists ==
    { [k \in 1..n |-> Pool[k]] : n \in 1..MaxLinks }
      \cup { [k \in 1..n |-> IF k = n THEN Pool[1] ELSE Pool[k]] : n \in 2..MaxLinks }

\* f"<|firecrawl-page-{i}-lllmstxt|>" (the "\n" that follows is a token of
\* its own)
Marker(n) == <<"<|firecrawl-page-", Digits[n], "-lllmstxt|>">>

\* What the two providers answer for a page (inputs, fixed per URL).  The
\* page of the second pool URL quotes a separator inside a line, the page of
\* the third one has a line that consists of a separator.
TitleOf(u) == << <<"title of", u>> >>
DescriptionOf(u) == << <<"description of", u>> >>
MarkdownOf(u) ==
    IF u = Pool[2]
      THEN << <<"text of", u>>, Marker(1), <<"more text of", u>> >>
    ELSE IF u = Pool[3]
      THEN << <<"text of", u>>, <<"nl">>, Marker(2), <<"nl">>, <<"more text of", u>> >>
    ELSE << <<"text of", u>>, <<"nl">>, <<"more text of", u>> >>

\* The field that is absent when the summarizing model answers with an
\* incomplete JSON object for the page (an input, fixed per URL).
MissingField(u) == IF u = Pool[1] THEN "description" ELSE "title"

\* result.get("title", "Page"), result.get("description", "No description available")
DefaultTitle == << <<"Page">> >>
DefaultDescription == << <<"No description available">> >>

VARIABLES
    max_pages,     \* argument max_pages of extract_knowledge
    batch_size,    \* settings.batch_size
    max_workers,   \* settings.max_workers
    api_retry_attempts,  \* settings.api_retry_attempts
    pc,            \* position of the thread running extract_knowledge
    mapAtt,        \* number of the _map_website attempt in progress (0: returned)
    lastMap,       \* outcome of the latest _map_website attempt
    urls,          \* local urls (after urls[:max_pages])
    i,             \* loop variable of the batch loop
    wk,            \* per index: the future / worker of _process_url(url, index)
    all_results,   \* local all_results
    url,           \* local url (the parameter, rebound in the except clause)
    llmstxt,       \* local llmstxt
    llms_fulltxt,  \* local llms_fulltxt
    sleeps,        \* number of time.sleep(1) calls made so far
    error,         \* exception that left extract_knowledge, if any
    bundle,        \* the returned KnowledgeBundle, if any
    \* --- SyncOrchestrator (sync_orchestrator.py)
    dry_run,           \* self.dry_run
    use_thoughtbox,    \* self.use_thoughtbox
    command_files,     \* names n with a file <commands_dir>/n.md
    skill_files,       \* names n with a file <skills_dir>/n/SKILL.md
    temp_files,        \* paths that exist under .sync-temp
    sync_pc,           \* position of the coroutine SyncOrchestrator.run
    discovery,         \* the SyncDiscovery of phase 0
    pos,               \* position of the for loop in progress (1-based)
    intents,           \* local intents of phase_1_reasoning
    skills_created,    \* local skills_created of phase_2_generation
    commands_created,  \* local commands_created of phase_2_generation
    errors,            \* local errors of phase_2_generation
    result,            \* the SyncResult that run returns, if any
    \* --- SkillOrchestrator.generate_skill (orchestrator.py)
    gen_args,          \* the arguments of the call
    gen_pc,            \* position inside generate_skill
    gen_done,          \* the phases that have been executed, in order
    gen_exc,           \* the exception in flight or propagated, if any
    gen_result,        \* the SkillGenerationResult returned, if any
    \* --- ModeConfigurator (mode_configurator.py)
    roomodes,          \* content of the .roomodes file
    calls,             \* number of register_mode calls made so far
    registration       \* the ModeRegistrationResult of the latest call

settings == <<max_pages, batch_size, max_workers, api_retry_attempts>>

pipelineVars == <<settings, pc, mapAtt, lastMap, urls, i, wk, all_results, url,
                  llmstxt, llms_fulltxt, sleeps, error, bundle>>
syncVars == <<dry_run, use_thoughtbox, command_files, skill_files, temp_files,
              sync_pc, discovery, pos, intents, skills_created,
              commands_created, errors, result>>
genVars == <<gen_args, gen_pc, gen_done, gen_exc, gen_result>>
modeVars == <<roomodes, calls, registration>>

vars == <<pipelineVars, syncVars, genVars, modeVars>>

\* the variables extract_knowledge has no access to
outside == <<syncVars, genVars, modeVars>>

None == "None"

\* The programs at rest: not started, nothing on disk.
SyncIdle ==
    /\ dry_run = FALSE
    /\ use_thoughtbox = FALSE
    /\ command_files = {}
    /\ skill_files = {}
    /\ temp_files = {}
    /\ sync_pc = "idle"
    /\ discovery = None
    /\ pos = 0
    /\ intents = <<>>
    /\ skills_created = 0
    /\ commands_created = 0
    /\ errors = <<>>
    /\ result = None

GenIdle ==
    /\ gen_args = None
    /\ gen_pc = "idle"
    /\ gen_done = <<>>
    /\ gen_exc = None
    /\ gen_result = None

ModeIdle ==
    /\ roomodes = None
    /\ calls = 0
    /\ registration = None

NoBundle == [page_count |-> -1]
NoWorker == [st |-> "idle", att |-> 0, last |-> "-", fetch |-> "-", sum |-> "-",
             fields |-> "-"]

Indices == 0..(Len(urls) - 1)
UrlAt(idx) == urls[idx + 1]

Min(a, b) == IF a < b THEN a ELSE b

W(idx) == wk[idx + 1]

\* ------------------------------------------------------------------ texts
NL == <<"nl">>
\* f"# {url} llms.txt\n\n" and f"# {url} llms-full.txt\n\n"
IndexHeader(u) == << <<"# ">>, <<u>>, <<" llms.txt">>, NL, NL >>
FullHeader(u) == << <<"# ">>, <<u>>, <<" llms-full.txt">>, NL, NL >>

\* ------------------------------------------------------------------ Init
\* Threads beyond the size of a batch are never used, so max_workers is
\* explored up to batch_size only.
PipelineStart ==
    /\ max_pages \in 1..MaxPages
    /\ batch_size \in 1..MaxBatchSize
    /\ max_workers \in 1..Min(MaxWorkers, batch_size)
    /\ pc = "map"
    /\ mapAtt = 1
    /\ lastMap = "-"
    /\ urls = <<>>
    /\ i = 0
    /\ wk = <<>>
    /\ all_results = <<>>
    /\ url = RootUrl
    /\ llmstxt = <<>>
    /\ llms_fulltxt = <<>>
    /\ sleeps = 0
    /\ error = "none"
    /\ bundle = NoBundle
    /\ SyncIdle /\ GenIdle /\ ModeIdle

\* A run under the default retry setting of config.py.
Init ==
    /\ api_retry_attempts = DefaultRetryAttempts
    /\ PipelineStart

\* A run under any retry setting.
RetryInit ==
    /\ api_retry_attempts \in 1..MaxRetryAttempts
    /\ PipelineStart

\* variant: an empty answer is raised inside the retried call
MapRetries_OnEmpty(outcome, att) ==
    outcome \in {"raise", "empty"} /\ att < MapStopAfter

\* -------------------------------------------------------------- _map_website
\* tenacity retries the call when it raised and attempts remain.
MapRetries(outcome, att) == outcome = "raise" /\ att < MapStopAfter

\* variant: the failure of the call is swallowed and reported as "no URLs"
RaisedError_NoUrls(outcome) == "ValueError"

\* The exception that leaves extract_knowledge when no URL list is obtained:
\* tenacity's RetryError once the attempts are used up, the ValueError of
\* "if not urls" when the call returned an empty list.
RaisedError(outcome) == IF outcome = "raise" THEN "RetryError" ELSE "ValueError"

\* variant: the answer of the service is used as it is
Truncate_Not(links, limit) == links

\* urls = urls[:max_pages]
Truncate(links, limit) == SubSeq(links, 1, Min(Len(links), limit))

\* One attempt of _map_website and, when it is the last one, the code of
\* extract_knowledge that follows it up to the batch loop.
MapRaise ==
    /\ pc = "map"
    /\ lastMap' = "raise"
    /\ IF MapRetries("raise", mapAtt)
         THEN /\ mapAtt' = mapAtt + 1
              /\ UNCHANGED <<pc, error>>
         ELSE /\ pc' = "raised"
              /\ error' = RaisedError("raise")
              /\ UNCHANGED mapAtt
    /\ UNCHANGED <<outside, settings, urls, i, wk, all_results, url, llmstxt,
                   llms_fulltxt, sleeps, bundle>>

MapEmpty ==
    /\ pc = "map"
    /\ lastMap' = "empty"
    /\ IF MapRetries("empty", mapAtt)
         THEN /\ mapAtt' = mapAtt + 1
              /\ UNCHANGED <<pc, error>>
         ELSE /\ pc' = "raised"
              /\ error' = RaisedError("empty")
              /\ UNCHANGED mapAtt
    /\ UNCHANGED <<outside, settings, urls, i, wk, all_results, url, llmstxt,
                   llms_fulltxt, sleeps, bundle>>

MapLinks ==
    /\ pc = "map"
    /\ \E links \in LinkLists :
         /\ urls' = Truncate(links, max_pages)
         /\ wk' = [k \in 1..Len(urls') |-> NoWorker]
    /\ lastMap' = "links"
    /\ llmstxt' = IndexHeader(url)
    /\ llms_fulltxt' = FullHeader(url)
    /\ i' = 0
    /\ pc' = "batch"
    /\ mapAtt' = 0
    /\ UNCHANGED <<outside, settings, all_results, url, sleeps, error, bundle>>

\* variant: the slice takes one URL too many (urls[i:i + batch_size + 1])
BatchIndices_Inclusive(start, size) ==
    { k \in Indices : start <= k /\ k <= start + size }

\* ------------------------------------------------------------ the executor
\* urls[i:i + batch_size] with the indices i + j given to the workers
BatchIndices(start, size) == { k \in Indices : start <= k /\ k < start + size }

Running == { k \in Indices : W(k).st \in {"scrape", "summarize"} }
Queued == { k \in Indices : W(k).st = "queued" }

\* variant: the pool never hands a work item to a thread
CanStart_Never(running, limit) == FALSE

\* variant: one thread per submitted work item
CanStart_Unbounded(running, limit) == TRUE

\* ThreadPoolExecutor(max_workers=...): a queued work item is taken only by
\* one of at most max_workers threads, each running one item at a time.
CanStart(running, limit) == running < limit

\* executor.submit(self._process_url, url, i + j) for every j of the batch
LaunchBatch ==
    /\ pc = "batch"
    /\ wk' = [k \in 1..Len(urls) |->
                IF (k - 1) \in BatchIndices(i, batch_size)
                  THEN [wk[k] EXCEPT !.st = "queued"]
                  ELSE wk[k]]
    /\ pc' = "wait"
    /\ UNCHANGED <<outside, settings, mapAtt, lastMap, urls, i, all_results, url, llmstxt,
                   llms_fulltxt, sleeps, error, bundle>>

\* A pool thread takes the oldest queued work item (the work queue is FIFO).
StartWorker(idx) ==
    /\ W(idx).st = "queued"
    /\ \A k \in Queued : idx <= k
    /\ CanStart(Cardinality(Running), max_workers)
    /\ wk' = [wk EXCEPT ![idx + 1] = [@ EXCEPT !.st = "scrape", !.att = 1]]
    /\ UNCHANGED <<outside, settings, pc, mapAtt, lastMap, urls, i, all_results, url,
                   llmstxt, llms_fulltxt, sleeps, error, bundle>>

\* -------------------------------------------------------------- _scrape_url
\* What one attempt can end with: "raise" is a transient failure (timeout,
\* connection error, raise_for_status on a 5xx), "malformed" a body that
\* response.json() or data["data"].get cannot read (an exception too),
\* "signal" an answer without success or data (None is returned), "empty" an
\* answer whose markdown is missing or "", "ok" an answer with content.
ScrapeOutcomes == {"raise", "malformed", "ok", "empty", "signal"}
ScrapeRaises(outcome) == outcome \in {"raise", "malformed"}

\* @retry(stop=stop_after_attempt(3), ...): no retry predicate is given, so
\* tenacity retries on every exception while attempts remain.
ScrapeRetries(outcome, att) == ScrapeRaises(outcome) /\ att < ScrapeStopAfter

\* What _process_url does with the answer of _scrape_url: an exception leaves
\* the worker, None or an empty markdown makes it return None, anything else
\* goes on to _generate_summary.
AfterScrape(w, outcome) ==
    IF ScrapeRetries(outcome, w.att)
      THEN [w EXCEPT !.att = w.att + 1, !.last = outcome]
      ELSE IF ScrapeRaises(outcome)
        THEN [w EXCEPT !.st = "done", !.att = 0, !.last = "-", !.fetch = "exc"]
        ELSE IF outcome \in {"empty", "signal"}
          THEN [w EXCEPT !.st = "done", !.att = 0, !.last = "-", !.fetch = outcome]
          ELSE [w EXCEPT !.st = "summarize", !.att = 1, !.last = "-", !.fetch = "ok"]

ScrapeAttempt(idx) ==
    /\ W(idx).st = "scrape"
    /\ \E outcome \in ScrapeOutcomes :
         wk' = [wk EXCEPT ![idx + 1] = AfterScrape(@, outcome)]
    /\ UNCHANGED <<outside, settings, pc, mapAtt, lastMap, urls, i, all_results, url,
                   llmstxt, llms_fulltxt, sleeps, error, bundle>>

\* -------------------------------------------------------- _generate_summary
\* What one attempt can end with: "raise" is a transient API failure,
\* "unparsable" a completion that json.loads cannot read (an exception too),
\* "ok" a JSON object with both fields, "partial" a JSON object that lacks
\* one of them (which one is fixed per URL, see MissingField).
SummaryOutcomes == {"raise", "unparsable", "ok", "partial"}
SummaryRaises(outcome) == outcome \in {"raise", "unparsable"}

\* variant: one attempt more than configured
SummaryRetries_OneMore(outcome, att) ==
    SummaryRaises(outcome) /\ att <= SummaryStopAfter

\* @retry(stop=stop_after_attempt(3), ...): every exception is retried.
SummaryRetries(outcome, att) == SummaryRaises(outcome) /\ att < SummaryStopAfter

\* return (result.get("title", "Page"),
\*         result.get("description", "No description available"))
SummaryPair(fields, u) ==
    << IF fields = "partial" /\ MissingField(u) = "title"
         THEN DefaultTitle ELSE TitleOf(u),
       IF fields = "partial" /\ MissingField(u) = "description"
         THEN DefaultDescription ELSE DescriptionOf(u) >>

AfterSummary(w, outcome) ==
    IF SummaryRetries(outcome, w.att)
      THEN [w EXCEPT !.att = w.att + 1, !.last = outcome]
      ELSE IF SummaryRaises(outcome)
        THEN [w EXCEPT !.st = "done", !.att = 0, !.last = "-", !.sum = "exc"]
        ELSE [w EXCEPT !.st = "done", !.att = 0, !.last = "-", !.sum = "ok",
                       !.fields = IF outcome = "ok" THEN "both" ELSE "partial"]

SummarizeAttempt(idx) ==
    /\ W(idx).st = "summarize"
    /\ \E outcome \in SummaryOutcomes :
         wk' = [wk EXCEPT ![idx + 1] = AfterSummary(@, outcome)]
    /\ UNCHANGED <<outside, settings, pc, mapAtt, lastMap, urls, i, all_results, url,
                   llmstxt, llms_fulltxt, sleeps, error, bundle>>

\* variant: only a missing answer, not an empty markdown, makes the worker
\* return None
FutureResult_EmptyIsPage(w) ==
    IF w.fetch = "signal" THEN "none"
    ELSE IF w.fetch = "exc" \/ w.sum = "exc" THEN "exc"
    ELSE "page"

\* -------------------------------------------------------------- _process_url
\* The state of the future of a finished worker: "page" (a ScrapedPage),
\* "none" (None) or "exc" (an exception is stored in the future).
FutureResult(w) ==
    IF w.fetch \in {"empty", "signal"} THEN "none"
    ELSE IF w.fetch = "exc" \/ w.sum = "exc" THEN "exc"
    ELSE "page"

\* variant: the record carries the position inside its batch (j, not i + j)
ScrapedPage_BatchPosition(u, title, description, markdown, idx) ==
    [url |-> u, title |-> title, description |-> description,
     markdown |-> markdown, index |-> idx % batch_size]

\* ScrapedPage(url=url, title=title, description=description,
\*             markdown=scraped_data["markdown"], index=index)
ScrapedPage(u, title, description, markdown, idx) ==
    [url |-> u, title |-> title, description |-> description,
     markdown |-> markdown, index |-> idx]

\* The value _process_url returns for a worker whose two calls returned.
ProcessUrlPage(w, u, idx) ==
    LET pair == SummaryPair(w.fields, u)
    IN  ScrapedPage(u, pair[1], pair[2], MarkdownOf(u), idx)

\* variant: the exception of a worker is not caught by the loop
Caught_Nothing(res) == FALSE

\* ----------------------------------------------------- the as_completed loop
\* try: result = future.result() ... except Exception: every exception a
\* worker raised is caught here.
Caught(res) == res = "exc"

\* One iteration of "for future in as_completed(futures)".
Collect(idx) ==
    /\ pc = "wait"
    /\ W(idx).st = "done"
    /\ wk' = [wk EXCEPT ![idx + 1] = [@ EXCEPT !.st = "collected"]]
    /\ LET res == FutureResult(W(idx)) IN
         CASE res = "page" ->
                /\ all_results' = Append(all_results,
                                          ProcessUrlPage(W(idx), UrlAt(idx), idx))
                /\ UNCHANGED <<pc, url, error>>
           [] res = "none" ->
                UNCHANGED <<pc, all_results, url, error>>
           [] res = "exc" /\ Caught(res) ->
                /\ url' = UrlAt(idx)
                /\ UNCHANGED <<pc, all_results, error>>
           [] OTHER ->
                /\ pc' = "raised"
                /\ error' = "WorkerError"
                /\ UNCHANGED <<all_results, url>>
    /\ UNCHANGED <<outside, settings, mapAtt, lastMap, urls, i, llmstxt, llms_fulltxt,
                   sleeps, bundle>>

\* variant: the pause is also made after the last batch
MoreBatches_Inclusive(start, size, n) == start + size <= n

\* if i + batch_size < len(urls)
MoreBatches(start, size, n) == start + size < n

\* variant: the loop is left after its first batch
RangeHasNext_Never(start, size, n) == FALSE

\* range(0, len(urls), batch_size) has a value after start
RangeHasNext(start, size, n) == start + size < n

\* variant: the scheduler waits for the first completion only
BatchComplete_Any(start, size) ==
    \E k \in BatchIndices(start, size) : W(k).st = "collected"

\* every future of the batch has been yielded by as_completed and consumed
BatchComplete(start, size) ==
    \A k \in BatchIndices(start, size) : W(k).st = "collected"

\* The for statement takes the next value of the range or is exhausted.
LoopStep ==
    IF RangeHasNext(i, batch_size, Len(urls))
      THEN /\ i' = i + batch_size
           /\ pc' = "batch"
      ELSE /\ i' = i
           /\ pc' = "aggregate"

\* The with-block ends once every future of the batch has been consumed; the
\* scheduler then either goes to sleep or takes the next loop step at once.
ExitBatch ==
    /\ pc = "wait"
    /\ BatchComplete(i, batch_size)
    /\ IF MoreBatches(i, batch_size, Len(urls))
         THEN /\ pc' = "sleep"
              /\ i' = i
         ELSE LoopStep
    /\ UNCHANGED <<outside, settings, mapAtt, lastMap, urls, wk, all_results, url,
                   llmstxt, llms_fulltxt, sleeps, error, bundle>>

\* time.sleep(1) returns, then the loop steps
Sleep ==
    /\ pc = "sleep"
    /\ sleeps' = sleeps + 1
    /\ LoopStep
    /\ UNCHANGED <<outside, settings, mapAtt, lastMap, urls, wk, all_results, url,
                   llmstxt, llms_fulltxt, error, bundle>>

\* variant: the record is put at the end whatever its index
InsertByIndex_AtEnd(sorted, r) == Append(sorted, r)

\* --------------------------------------------------------------- aggregation
\* all_results.sort(key=lambda x: x.index): a stable insertion into place
RECURSIVE InsertByIndex(_, _)
InsertByIndex(sorted, r) ==
    IF sorted = <<>> THEN <<r>>
    ELSE IF Head(sorted).index <= r.index
      THEN <<Head(sorted)>> \o InsertByIndex(Tail(sorted), r)
      ELSE <<r>> \o sorted

\* variant: the results are left in completion order (no sort)
SortByIndex_Unsorted(rs) == rs

RECURSIVE SortByIndex(_)
SortByIndex(rs) ==
    IF rs = <<>> THEN <<>>
    ELSE CHOOSE out \in { InsertByIndex(done, rs[Len(rs)]) :
                            done \in {SortByIndex(SubSeq(rs, 1, Len(rs) - 1))} } : TRUE

\* variant: the line is not terminated
IndexLine_Unterminated(r) ==
    << <<"- [">> >> \o r.title \o << <<"](">>, <<r.url>>, <<"): ">> >>
        \o r.description

\* f"- [{result.title}]({result.url}): {result.description}\n"
IndexLine(r) ==
    << <<"- [">> >> \o r.title \o << <<"](">>, <<r.url>>, <<"): ">> >>
        \o r.description \o <<NL>>

\* f"<|firecrawl-page-{i}-lllmstxt|>\n" f"## {result.title}\n{result.markdown}\n\n"
FullSection(n, r) ==
    <<Marker(n), NL>> \o << <<"## ">> >> \o r.title \o <<NL>> \o r.markdown
        \o <<NL, NL>>

\* the concatenation of the texts parts[1], ..., parts[n]
RECURSIVE Concat(_, _)
Concat(parts, n) ==
    IF n = 0 THEN <<>> ELSE Concat(parts, n - 1) \o parts[n]

\* for i, result in enumerate(all_results, 1): llmstxt += ...
IndexLines(rs) == Concat([k \in 1..Len(rs) |-> IndexLine(rs[k])], Len(rs))

\* for i, result in enumerate(all_results, 1): llms_fulltxt += ...
FullSections(rs) == Concat([k \in 1..Len(rs) |-> FullSection(k, rs[k])], Len(rs))

\* re.sub(r'<\|firecrawl-page-\d+-lllmstxt\|>\n', '', text)
IsMarker(tok) ==
    /\ Len(tok) = 3
    /\ tok[1] = "<|firecrawl-page-"
    /\ tok[2] \in {Digits[n] : n \in 1..Len(Digits)}
    /\ tok[3] = "-lllmstxt|>"

\* The pattern is matched at position k when a separator is directly
\* followed by "\n"; re.sub scans from the left, drops every match and resumes
\* after it.
Matched(text, k) == k < Len(text) /\ IsMarker(text[k]) /\ text[k + 1] = NL

RemovePageSeparators(text) ==
    LET n == Len(text)
        rest[k \in 1..(n + 1)] ==
            IF k > n THEN <<>>
            ELSE IF Matched(text, k) THEN rest[k + 2]
            ELSE <<text[k]>> \o rest[k + 1]
    IN  rest[1]

\* variant: the number of URLs found is reported as processed
KnowledgeBundle_FoundAsProcessed(index_doc, full_doc, source, results, found) ==
    [llms_txt |-> index_doc,
     llms_full_txt |-> RemovePageSeparators(full_doc),
     source_url |-> source,
     page_count |-> Len(results),
     metadata |-> [total_urls_discovered |-> Len(found),
                   successfully_processed |-> Len(found)]]

\* KnowledgeBundle(llms_txt=..., llms_full_txt=..., source_url=url,
\*                 page_count=len(all_results), metadata={...})
KnowledgeBundle(index_doc, full_doc, source, results, found) ==
    [llms_txt |-> index_doc,
     llms_full_txt |-> RemovePageSeparators(full_doc),
     source_url |-> source,
     page_count |-> Len(results),
     metadata |-> [total_urls_discovered |-> Len(found),
                   successfully_processed |-> Len(results)]]

\* The code after the batch loop: sort, build both documents, return.
Aggregate ==
    /\ pc = "aggregate"
    /\ \E sorted \in {SortByIndex(all_results)} :
         /\ all_results' = sorted
         /\ llmstxt' = llmstxt \o IndexLines(sorted)
         /\ llms_fulltxt' = llms_fulltxt \o FullSections(sorted)
         /\ bundle' = KnowledgeBundle(llmstxt', llms_fulltxt', url, sorted, urls)
    /\ pc' = "done"
    /\ UNCHANGED <<outside, settings, mapAtt, lastMap, urls, i, wk, url, sleeps, error>>

\* ------------------------------------------------------------ specification
Next ==
    \/ MapRaise
    \/ MapEmpty
    \/ MapLinks
    \/ LaunchBatch
    \/ \E idx \in Indices : StartWorker(idx)
    \/ \E idx \in Indices : ScrapeAttempt(idx)
    \/ \E idx \in Indices : SummarizeAttempt(idx)
    \/ \E idx \in Indices : Collect(idx)
    \/ ExitBatch
    \/ Sleep
    \/ Aggregate

Spec == Init /\ [][Next]_vars

\* The pool threads and the thread of extract_knowledge all keep running,
\* and every external call returns or fails within its request timeout.
FairSpec ==
    /\ Spec
    /\ WF_vars(Next)

\* The same program under any value of Settings.api_retry_attempts.
RetrySpec == RetryInit /\ [][Next]_vars

\* ------------------------------------------------- vocabulary of the claims
Succeeded(idx) == W(idx).fetch = "ok" /\ W(idx).sum = "ok"
Finished(idx) == W(idx).st \in {"done", "collected"}
Failed(idx) == Finished(idx) /\ ~Succeeded(idx)
Started(idx) == W(idx).st \in {"scrape", "summarize", "done", "collected"}
BatchNo(idx) == idx \div batch_size
NumBatches == (Len(urls) + batch_size - 1) \div batch_size
Returned == pc = "done"

\* the elements of a set of integers in increasing order
RECURSIVE Ascending(_)
Ascending(S) ==
    IF S = {} THEN <<>>
    ELSE LET m == CHOOSE x \in S : \A y \in S : x <= y
         IN <<m>> \o Ascending(S \ {m})

\* the tokens of a text that directly follow an occurrence of tok
RECURSIVE Following(_, _)
Following(text, tok) ==
    IF Len(text) < 2 THEN <<>>
    ELSE IF text[1] = tok
      THEN <<text[2]>> \o Following(Tail(text), tok)
      ELSE Following(Tail(text), tok)

\* the indices whose worker produced a page, in increasing order: a function
\* of the outcomes of the external calls only
ExpectedOrder == Ascending({ idx \in Indices : Succeeded(idx) })

\* ---------------------------------------------------------------- claim C1
\* C1: in every returned bundle the Page Records are listed, in the index
\* document and in the full-text document, in strictly increasing order of
\* their original index, every index lies in [0, urls_discovered), and the
\* order depends on the outcomes only, not on the completion order.
C1_OrderedByIndex ==
    Returned =>
      /\ \A k \in 1..(Len(all_results) - 1) :
            all_results[k].index < all_results[k + 1].index
      /\ \A k \in 1..Len(all_results) :
            /\ all_results[k].index >= 0
            /\ all_results[k].index < bundle.metadata.total_urls_discovered
      /\ [k \in 1..Len(all_results) |-> all_results[k].index] = ExpectedOrder
      /\ Following(bundle.llms_txt, <<"](">>)
            = [k \in 1..Len(ExpectedOrder) |-> <<UrlAt(ExpectedOrder[k])>>]
      /\ Following(bundle.llms_full_txt, <<"## ">>)
            = [k \in 1..Len(ExpectedOrder) |->
                 SummaryPair(W(ExpectedOrder[k]).fields, UrlAt(ExpectedOrder[k]))[1][1]]

\* a bundle with two pages whose workers ran side by side in one batch (so
\* that either could complete first)
C1_Witness ==
    /\ Returned
    /\ bundle.page_count >= 2
    /\ batch_size >= 2
    /\ max_workers >= 2
    /\ Succeeded(0) /\ Succeeded(1)
    /\ urls[1] # urls[2]

\* ---------------------------------------------------------------- claim C2
\* C2: a failing worker never pre-empts the others: whenever the scheduler
\* has left a batch, every worker of that batch has run to completion and
\* been consumed, and every worker whose fetch and summarize succeeded has
\* its Page Record, whatever happened to the other workers.
C2_FailureIsolated ==
    /\ pc \in {"sleep", "batch", "aggregate", "done", "raised"} =>
          \A k \in Indices :
             (k < i + batch_size /\ (pc = "batch" => k < i)) =>
                /\ W(k).st = "collected"
                /\ Succeeded(k) =>
                     \E n \in 1..Len(all_results) :
                        /\ all_results[n].index = k
                        /\ all_results[n].url = UrlAt(k)
    /\ Returned =>
          \A k \in Indices :
             Succeeded(k) => \E n \in 1..Len(bundle.llms_txt) :
                                 bundle.llms_txt[n] = <<UrlAt(k)>>

\* a bundle holding the page of a worker whose batch mate failed by exception
C2_Witness ==
    /\ Returned
    /\ batch_size >= 2
    /\ Len(urls) >= 2
    /\ W(0).fetch = "exc"
    /\ Succeeded(1)
    /\ bundle.page_count >= 1

\* ---------------------------------------------------------------- claim C3
\* C3: extract_knowledge ends without a bundle only when the Mapper failed
\* on all its attempts or answered with no URL; once the Mapper has yielded
\* at least one URL the run ends by returning a bundle, whatever the
\* per-URL outcomes are.
C3_OnlyMapperAborts ==
    /\ [](pc = "raised" =>
            /\ lastMap \in {"raise", "empty"}
            /\ urls = <<>>
            /\ bundle.page_count = -1)
    /\ [](lastMap = "links" =>
            <>(/\ Returned
               /\ bundle.page_count >= 0
               /\ bundle.metadata.total_urls_discovered = Len(urls)))

\* a bundle returned although every worker failed, in each of the ways a
\* worker can fail
C3_Witness ==
    /\ Returned
    /\ Len(urls) = 3
    /\ bundle.page_count = 0
    /\ W(0).fetch = "exc"
    /\ W(1).fetch = "signal"
    /\ W(2).sum = "exc"

\* ---------------------------------------------------------------- claim C4
\* C4: a batch whose workers all fail contributes no Page Record, and every
\* later batch is still launched and processed, its successes being part of
\* the bundle.
C4_FailedBatchDoesNotHalt ==
    Returned =>
      \A b \in 0..(NumBatches - 1) :
         (\A k \in BatchIndices(b * batch_size, batch_size) : ~Succeeded(k)) =>
            /\ \A n \in 1..Len(all_results) : BatchNo(all_results[n].index) # b
            /\ \A k \in Indices :
                  BatchNo(k) > b =>
                     /\ W(k).st = "collected"
                     /\ Succeeded(k) =>
                          /\ \E n \in 1..Len(all_results) : all_results[n].index = k
                          /\ \E n \in 1..Len(bundle.llms_txt) :
                                bundle.llms_txt[n] = <<UrlAt(k)>>

\* the first batch failed as a whole and a later batch has a page in the bundle
C4_Witness ==
    /\ Returned
    /\ NumBatches >= 2
    /\ \A k \in BatchIndices(0, batch_size) : Failed(k)
    /\ \E k \in Indices : BatchNo(k) >= 1 /\ Succeeded(k)
    /\ bundle.page_count >= 1

\* ---------------------------------------------------------------- claim C5
\* C5: an empty answer of the Mapper is not retried and ends the run at once
\* with the "no URLs found" error, which differs from the error raised when
\* the Mapper call itself fails; no worker is launched, no bundle produced.
C5_EmptyMapIsDistinctAbort ==
    /\ lastMap = "empty" =>
          /\ pc = "raised"
          /\ error = "ValueError"
          /\ wk = <<>>
          /\ urls = <<>>
          /\ bundle.page_count = -1
    /\ (pc = "raised" /\ lastMap = "raise") => error # "ValueError"

\* the Mapper answered with an empty list on a retry of a failed attempt
C5_Witness ==
    /\ lastMap = "empty"
    /\ mapAtt = 2
    /\ pc = "raised"

\* ---------------------------------------------------------------- claim C6
\* C6: when the Mapper call fails on every attempt the run ends with a hard
\* failure: nothing was fetched or summarized, there is no bundle, and
\* nothing happens afterwards.
C6_MapperFailureAborts ==
    /\ lastMap = "raise" =>
          \/ pc = "map" /\ mapAtt <= MapStopAfter /\ error = "none"
          \/ pc = "raised" /\ error = "RetryError" /\ mapAtt = MapStopAfter
    /\ (pc = "raised" /\ error = "RetryError") =>
          /\ lastMap = "raise"
          /\ wk = <<>>
          /\ all_results = <<>>
          /\ bundle.page_count = -1
          /\ ~ENABLED Next

\* the third attempt of the Mapper failed
C6_Witness ==
    /\ pc = "raised"
    /\ lastMap = "raise"
    /\ mapAtt = MapStopAfter

\* ---------------------------------------------------------------- claim C7
\* C7: batches run strictly one after the other: a worker of a batch is
\* submitted or running only when every worker of every earlier batch has
\* finished.
C7_BatchesSequential ==
    \A k \in Indices : \A l \in Indices :
       (BatchNo(k) < BatchNo(l) /\ W(l).st # "idle") => Finished(k)

\* a worker of the second batch is running
C7_Witness ==
    \E l \in Indices :
       /\ BatchNo(l) >= 1
       /\ W(l).st \in {"scrape", "summarize"}
       /\ BatchNo(0) = 0

\* ---------------------------------------------------------------- claim C8
\* C8: at most max_workers workers execute fetch/summarize at any moment,
\* also when the batch is larger than max_workers; the other URLs of the
\* batch wait in the queue, are started only when a thread is free, and are
\* all started eventually.
C8_BoundedWorkers ==
    /\ [](Cardinality(Running) <= max_workers)
    /\ [][\A idx \in Indices :
            (W(idx).st = "queued" /\ wk'[idx + 1].st # "queued") =>
               /\ Cardinality(Running) < max_workers
               /\ wk'[idx + 1].st = "scrape"]_vars
    /\ <>[](urls # <<>> => \A idx \in Indices : Started(idx))

\* a URL waits in the queue while max_workers workers are running
C8_Witness ==
    /\ batch_size > max_workers
    /\ Cardinality(Running) = max_workers
    /\ Queued # {}

\* ---------------------------------------------------------------- claim C9
\* C9: the scheduler pauses once between any two consecutive batches (no
\* worker of a batch is submitted before as many pauses as there are earlier
\* batches) and never after the last batch.
C9_PauseBetweenBatches ==
    /\ \A k \in Indices : W(k).st # "idle" => sleeps >= BatchNo(k)
    /\ urls # <<>> => sleeps <= NumBatches - 1
    /\ pc \in {"aggregate", "done"} => sleeps = NumBatches - 1

\* a run over three batches returned after two pauses
C9_Witness ==
    /\ Returned
    /\ NumBatches = 3
    /\ sleeps = 2

RecordsOf(k) == Cardinality({ n \in 1..Len(all_results) : all_results[n].index = k })

\* --------------------------------------------------------------- claim C11
\* C11: a Page Record exists only for a URL whose fetch returned non-empty
\* content and whose summarize call returned: after a fetch that failed,
\* signalled failure or returned empty content the Summarizer is never
\* called and there is no record, and there is none after a failed summarize.
C11_RecordOnlyOnFullSuccess ==
    /\ \A k \in Indices :
          /\ W(k).fetch \in {"exc", "signal", "empty"} =>
                /\ W(k).sum = "-"
                /\ W(k).st # "summarize"
                /\ RecordsOf(k) = 0
          /\ W(k).sum = "exc" => RecordsOf(k) = 0
          /\ W(k).st = "summarize" => W(k).fetch = "ok"
    /\ \A n \in 1..Len(all_results) :
          /\ Succeeded(all_results[n].index)
          /\ all_results[n].markdown # <<>>

\* a bundle of a run in which one fetch returned empty content, one summarize
\* failed and one URL succeeded
C11_Witness ==
    /\ Returned
    /\ Len(urls) = 3
    /\ W(0).fetch = "empty"
    /\ W(1).sum = "exc"
    /\ Succeeded(2)
    /\ bundle.page_count = 1

\* --------------------------------------------------------------- claim C12
\* C12 (as claimed): after the Summarizer received unparsable text for a URL
\* the summarize call is not issued again for that URL.
C12_NoRetryAfterUnparsable ==
    \A k \in Indices : ~(W(k).st = "summarize" /\ W(k).last = "unparsable")

\* --------------------------------------------------------------- claim C13
\* C13 (as claimed): a response that lacks the title or the description field
\* never leads to a Page Record, so no record carries an invented field.
C13_NoInventedFields ==
    /\ \A k \in Indices : W(k).fields = "partial" => RecordsOf(k) = 0
    /\ \A n \in 1..Len(all_results) :
          /\ all_results[n].title # DefaultTitle
          /\ all_results[n].description # DefaultDescription

\* --------------------------------------------------------------- claim C14
\* C14 (as claimed): after a non-transient fetch failure (a malformed
\* response) the fetch call is not issued again for that URL.
C14_NoRetryAfterMalformed ==
    \A k \in Indices : ~(W(k).st = "scrape" /\ W(k).last = "malformed")

\* --------------------------------------------------------------- claim C15
\* C15: the Mapper call, and per URL the fetch call and the summarize call,
\* are attempted at most 3 times; a call reports failure by exhaustion only
\* after its third attempt, so a success on a retry is delivered (the worker
\* goes on to summarize, respectively finishes with its summary), and the
\* failure of one call leaves every other worker as it is.
C15_BoundedRetries ==
    /\ [](/\ mapAtt <= MapStopAfter
          /\ \A k \in Indices :
                /\ W(k).st = "scrape" => W(k).att \in 1..ScrapeStopAfter
                /\ W(k).st = "summarize" => W(k).att \in 1..SummaryStopAfter)
    /\ [][/\ (pc = "map" /\ pc' = "raised" /\ error' = "RetryError") =>
                mapAtt = MapStopAfter
          /\ \A k \in Indices :
                /\ (W(k).st = "scrape" /\ wk'[k + 1].st = "done"
                      /\ wk'[k + 1].fetch = "exc") =>
                        /\ W(k).att = ScrapeStopAfter
                        /\ \A j \in Indices \ {k} : wk'[j + 1] = wk[j + 1]
                /\ (W(k).st = "scrape" /\ wk'[k + 1].st = "summarize") =>
                        wk'[k + 1].fetch = "ok"
                /\ (W(k).st = "summarize" /\ wk'[k + 1].st = "done"
                      /\ wk'[k + 1].sum = "exc") =>
                        /\ W(k).att = SummaryStopAfter
                        /\ \A j \in Indices \ {k} : wk'[j + 1] = wk[j + 1]
                /\ (W(k).st = "summarize" /\ wk'[k + 1].st = "done"
                      /\ wk'[k + 1].sum # "exc") =>
                        wk'[k + 1].sum = "ok"]_vars

\* the third summarize attempt of a URL is in progress after transient
\* failures, the Mapper having answered on a retry
C15_Witness ==
    \E k \in Indices :
       /\ W(k).st = "summarize"
       /\ W(k).att = SummaryStopAfter
       /\ W(k).last = "raise"

\* --------------------------------------------------------------- claim C16
\* C16: with a positive limit, page_count <= urls_discovered <= limit: the
\* URL list handed to the scheduler never has more than max_pages entries.
C16_CountsWithinLimit ==
    /\ Len(urls) <= max_pages
    /\ Cardinality({ k \in Indices : W(k).st # "idle" }) <= max_pages
    /\ Returned =>
          /\ bundle.page_count <= bundle.metadata.total_urls_discovered
          /\ bundle.metadata.total_urls_discovered <= max_pages

\* a bundle whose URL list is as long as the limit, which is shorter than the
\* longest answer of the mapping service, with one URL lost
C16_Witness ==
    /\ Returned
    /\ max_pages < MaxLinks
    /\ bundle.metadata.total_urls_discovered = max_pages
    /\ bundle.page_count = max_pages - 1

\* --------------------------------------------------------------- claim C17
\* the number of lines of a text (every line ends with "\n")
LineCount(text) == Cardinality({ n \in 1..Len(text) : text[n] = NL })

\* C17 (as claimed): the line count of the index document equals page_count.
C17_LineCountIsPageCount ==
    Returned => LineCount(bundle.llms_txt) = bundle.page_count

\* C17 (amended): the index document is the two header lines followed by
\* exactly one line "- [title](url): description" per Page Record, in order;
\* its line count is page_count + 2.
C17_OneLinePerRecord ==
    Returned =>
      /\ LineCount(bundle.llms_txt) = bundle.page_count + 2
      /\ Len(bundle.llms_txt) = 5 + 7 * bundle.page_count
      /\ SubSeq(bundle.llms_txt, 1, 5) = IndexHeader(RootUrl)
      /\ \A n \in 1..bundle.page_count :
            LET line == SubSeq(bundle.llms_txt, 7 * n - 1, 7 * n + 5)
            IN  /\ line[1] = <<"- [">>
                /\ <<line[2]>> = all_results[n].title
                /\ line[3] = <<"](">>
                /\ line[4] = <<all_results[n].url>>
                /\ line[5] = <<"): ">>
                /\ <<line[6]>> = all_results[n].description
                /\ line[7] = NL

\* a bundle with two pages
C17_Witness ==
    /\ Returned
    /\ bundle.page_count = 2
    /\ LineCount(bundle.llms_txt) = 4

\* --------------------------------------------------------------- claim C18
\* C18: the counts of a bundle are consistent: page_count is the number of
\* Page Records and equals successfully_processed, total_urls_discovered is
\* the number of URLs submitted to workers, their difference is the number
\* of URLs that failed, and no two records share an index.
C18_CountsConsistent ==
    Returned =>
      /\ bundle.page_count = Len(all_results)
      /\ bundle.page_count = bundle.metadata.successfully_processed
      /\ bundle.metadata.total_urls_discovered
            = Cardinality({ k \in Indices : W(k).st # "idle" })
      /\ bundle.metadata.total_urls_discovered - bundle.page_count
            = Cardinality({ k \in Indices : Failed(k) })
      /\ \A m \in 1..Len(all_results) : \A n \in 1..Len(all_results) :
            all_results[m].index = all_results[n].index => m = n

\* a bundle with both pages and failed URLs
C18_Witness ==
    /\ Returned
    /\ bundle.page_count >= 1
    /\ bundle.metadata.total_urls_discovered - bundle.page_count >= 2

\* --------------------------------------------------------------- claim C19
\* C19 (as claimed): the delivered full-text document contains no page
\* separator, whatever the titles and contents of the pages are.
C19_NoResidualMarker ==
    Returned =>
      \A n \in 1..Len(bundle.llms_full_txt) : ~IsMarker(bundle.llms_full_txt[n])

\* --------------------------------------------------------------- claim C20
\* the records rs in the order given by the permutation p
Permuted(rs, p) == [k \in 1..Len(rs) |-> rs[p[k]]]
Orders(n) ==
    { p \in [1..n -> 1..n] : \A a \in 1..n : \A b \in 1..n : p[a] = p[b] => a = b }
Reversed(rs) == [k \in 1..Len(rs) |-> rs[Len(rs) + 1 - k]]

\* both documents as the code builds them from the collected records rs
Documents(index_header, full_header, rs) ==
    << index_header \o IndexLines(SortByIndex(rs)),
       RemovePageSeparators(full_header \o FullSections(SortByIndex(rs))) >>

\* C20: the two documents are a function of the set of Page Records: the
\* records collected in any other order yield the same index document and
\* the same full-text document, which are the ones delivered.
C20_OrderIndependent ==
    /\ pc = "aggregate" =>
          \A p \in Orders(Len(all_results)) :
             Documents(llmstxt, llms_fulltxt, Permuted(all_results, p))
                = Documents(llmstxt, llms_fulltxt, all_results)
    /\ Returned =>
          <<bundle.llms_txt, bundle.llms_full_txt>>
             = Documents(IndexHeader(RootUrl), FullHeader(RootUrl),
                         Reversed(all_results))

\* the records are about to be aggregated and were not collected in the
\* order of their indices
C20_Witness ==
    /\ pc = "aggregate"
    /\ Len(all_results) >= 3
    /\ all_results[1].index > all_results[2].index

C22_NoDuplicateUrls ==
    \A a \in 1..Len(urls) : \A b \in 1..Len(urls) : urls[a] = urls[b] => a = b

\* --------------------------------------------------------------- claim C23
\* C23: every run terminates: it ends for good either with a bundle, every
\* launched worker finished and consumed and every batch completed, or with
\* the error of the Mapper and no worker launched.
C23_Terminates ==
    <>[](/\ pc \in {"done", "raised"}
         /\ \A k \in Indices : W(k).st = "collected"
         /\ pc = "done" =>
               /\ bundle.page_count >= 0
               /\ i + batch_size >= Len(urls)
         /\ pc = "raised" =>
               /\ error \in {"RetryError", "ValueError"}
               /\ wk = <<>>
               /\ bundle = NoBundle)

\* a run over two batches has returned, the calls of a URL having failed
\* on all attempts
C23_Witness ==
    /\ Returned
    /\ NumBatches = 2
    /\ sleeps = 1
    /\ W(0).fetch = "exc"
    /\ \A k \in Indices : W(k).st = "collected"

\* --------------------------------------------------------------- claim C24
\* C24 (as claimed): no external call is attempted more often than
\* Settings.api_retry_attempts says.
C24_AttemptsAsConfigured ==
    /\ mapAtt <= api_retry_attempts
    /\ \A k \in Indices : W(k).att <= api_retry_attempts

\* --------------------------------------------------------------- claim C26
\* C26 (as claimed): source_url of a returned bundle is the root URL that
\* was passed to extract_knowledge.
C26_SourceUrlIsRoot ==
    Returned => bundle.source_url = RootUrl

\* --------------------------------------------------------------- claim C27
\* "## title\n" + raw content + "\n\n"
DirectSection(r) ==
    << <<"## ">> >> \o r.title \o <<NL>> \o r.markdown \o <<NL, NL>>
DirectSections(rs) == Concat([k \in 1..Len(rs) |-> DirectSection(rs[k])], Len(rs))

\* C27 (as claimed): the delivered full-text document is the header followed
\* by the direct concatenation of the sections of the records in index order.
C27_EqualsDirectConcatenation ==
    Returned =>
      bundle.llms_full_txt = FullHeader(RootUrl) \o DirectSections(all_results)

\* ======================================================================
\* SyncOrchestrator.run (src/scripts/sync-orchestrator)
\* ======================================================================
\* extract_knowledge at rest, for the specifications of the other programs
PipelineIdle ==
    /\ max_pages = 1
    /\ batch_size = 1
    /\ max_workers = 1
    /\ api_retry_attempts = DefaultRetryAttempts
    /\ pc = "idle"
    /\ mapAtt = 0
    /\ lastMap = "-"
    /\ urls = <<>>
    /\ i = 0
    /\ wk = <<>>
    /\ all_results = <<>>
    /\ url = RootUrl
    /\ llmstxt = <<>>
    /\ llms_fulltxt = <<>>
    /\ sleeps = 0
    /\ error = "none"
    /\ bundle = NoBundle

notSync == <<pipelineVars, genVars, modeVars>>

\* Names of commands and skills, in the order sorted() gives them.
NamePool == <<"deploy", "lint", "review", "test">>
Names == { NamePool[k] : k \in 1..MaxNames }

\* sorted(S) for a set of names
Sorted(S) ==
    LET at == { k \in 1..Len(NamePool) : NamePool[k] \in S }
    IN  [n \in 1..Cardinality(at) |->
            NamePool[CHOOSE k \in at : Cardinality({ j \in at : j < k }) = n - 1]]

Range(seq) == { seq[k] : k \in 1..Len(seq) }

\* discover_commands: the stems of the *.md files of the directory
DiscoverCommands(files) == files

\* discover_skills: the directories holding a SKILL.md, special ones excluded
ExcludedSkills == {"template-skill", "scripts", "architecture"}
DiscoverSkills(files) == files \ ExcludedSkills

\* compute_gaps(commands, skills)
ComputeGaps(commands, skills) ==
    [commands |-> Sorted(commands),
     skills |-> Sorted(skills),
     commands_without_skills |-> Sorted(commands \ skills),
     skills_without_commands |-> Sorted(skills \ commands),
     total_gaps |-> Cardinality(commands \ skills) + Cardinality(skills \ commands)]

\* SyncResult(skills_created, commands_created, total_synced, errors, success)
SyncResult(skills, commands, errs) ==
    [skills_created |-> skills,
     commands_created |-> commands,
     total_synced |-> skills + commands,
     errors |-> errs,
     success |-> Len(errs) = 0]

\* self.temp_dir, intents_dir and intents_dir / f"{name}-intent.json"
TempDir == <<".sync-temp">>
IntentsDir == <<".sync-temp", "intents">>
IntentFile(name) == <<".sync-temp", "intents", name>>

\* The Intent analyze_command / analyze_skill returns, and the one the
\* except clause builds.
AnalysedIntent(name, type) == [name |-> name, type |-> type, purpose |-> "analysed"]
FallbackIntent(name, type) == [name |-> name, type |-> type, purpose |-> "fallback"]

\* intents[name] = intent
Put(ints, name, intent) ==
    [n \in (DOMAIN ints) \cup {name} |-> IF n = name THEN intent ELSE ints[n]]

\* variant: the failure is only printed
StoreFallback_Skip(ints, name, type) == ints

\* except Exception: intents[name] = Intent(...)
StoreFallback(ints, name, type) == Put(ints, name, FallbackIntent(name, type))

\* How the analysis of one item can go: "unreadable" (open of the source
\* file raises), "failed" (the Thoughtbox call raises: a timeout, a failed
\* connection, or self.thoughtbox being None), "analysed" (an Intent is
\* returned and saved), "unsaved" (an Intent is returned, opening the intent
\* file raises).  Without a Thoughtbox client no Intent is ever returned.
AnalysisOutcomes == {"unreadable", "failed", "analysed", "unsaved"}
CanHappen(outcome, available) == outcome \in {"analysed", "unsaved"} => available

\* The body of one iteration of the loops of phase_1_reasoning.
IntentsAfter(ints, name, type, outcome) ==
    IF outcome = "analysed" THEN Put(ints, name, AnalysedIntent(name, type))
    ELSE IF outcome = "unsaved"
      THEN StoreFallback(Put(ints, name, AnalysedIntent(name, type)), name, type)
      ELSE StoreFallback(ints, name, type)

SyncInit ==
    /\ dry_run \in BOOLEAN
    /\ use_thoughtbox \in BOOLEAN
    /\ command_files \in SUBSET Names
    /\ skill_files \in SUBSET Names
    /\ temp_files = {}
    /\ sync_pc = "phase0"
    /\ discovery = None
    /\ pos = 0
    /\ intents = <<>>
    /\ skills_created = 0
    /\ commands_created = 0
    /\ errors = <<>>
    /\ result = None
    /\ PipelineIdle /\ GenIdle /\ ModeIdle

\* phase_0_discovery and the early return of run when nothing is missing
Phase0Discovery ==
    /\ sync_pc = "phase0"
    /\ discovery' = ComputeGaps(DiscoverCommands(command_files),
                                DiscoverSkills(skill_files))
    /\ IF discovery'.total_gaps = 0
         THEN /\ result' = SyncResult(0, 0, <<>>)
              /\ sync_pc' = "done"
         ELSE /\ sync_pc' = "phase1"
              /\ UNCHANGED result
    /\ UNCHANGED <<notSync, dry_run, use_thoughtbox, command_files, skill_files,
                   temp_files, pos, intents, skills_created, commands_created,
                   errors>>

\* intents = {}; self.temp_dir.mkdir(exist_ok=True); intents_dir.mkdir(...)
Phase1Start ==
    /\ sync_pc = "phase1"
    /\ \E made \in {"ok", "OSError"} :
         IF made = "ok"
           THEN /\ temp_files' = temp_files \cup {TempDir, IntentsDir}
                /\ intents' = <<>>
                /\ pos' = 1
                /\ sync_pc' = "analyze_commands"
           ELSE /\ sync_pc' = "raised"
                /\ UNCHANGED <<temp_files, intents, pos>>
    /\ UNCHANGED <<notSync, dry_run, use_thoughtbox, command_files, skill_files,
                   discovery, skills_created, commands_created, errors, result>>

\* one iteration of "for cmd in discovery.commands_without_skills"
AnalyzeCommand ==
    /\ sync_pc = "analyze_commands"
    /\ pos <= Len(discovery.commands_without_skills)
    /\ \E outcome \in AnalysisOutcomes :
         /\ CanHappen(outcome, use_thoughtbox)
         /\ LET cmd == discovery.commands_without_skills[pos] IN
              /\ intents' = IntentsAfter(intents, cmd, "command", outcome)
              /\ temp_files' = IF outcome = "analysed"
                                 THEN temp_files \cup {IntentFile(cmd)}
                                 ELSE temp_files
    /\ pos' = pos + 1
    /\ UNCHANGED <<notSync, dry_run, use_thoughtbox, command_files, skill_files,
                   sync_pc, discovery, skills_created, commands_created, errors,
                   result>>

EndAnalyzeCommands ==
    /\ sync_pc = "analyze_commands"
    /\ pos > Len(discovery.commands_without_skills)
    /\ sync_pc' = "analyze_skills"
    /\ pos' = 1
    /\ UNCHANGED <<notSync, dry_run, use_thoughtbox, command_files, skill_files,
                   temp_files, discovery, intents, skills_created,
                   commands_created, errors, result>>

\* one iteration of "for skill in discovery.skills_without_commands"
AnalyzeSkill ==
    /\ sync_pc = "analyze_skills"
    /\ pos <= Len(discovery.skills_without_commands)
    /\ \E outcome \in AnalysisOutcomes :
         /\ CanHappen(outcome, use_thoughtbox)
         /\ LET skill == discovery.skills_without_commands[pos] IN
              /\ intents' = IntentsAfter(intents, skill, "skill", outcome)
              /\ temp_files' = IF outcome = "analysed"
                                 THEN temp_files \cup {IntentFile(skill)}
                                 ELSE temp_files
    /\ pos' = pos + 1
    /\ UNCHANGED <<notSync, dry_run, use_thoughtbox, command_files, skill_files,
                   sync_pc, discovery, skills_created, commands_created, errors,
                   result>>

\* phase_1_reasoning returns; phase_2_generation sets up its counters
EndAnalyzeSkills ==
    /\ sync_pc = "analyze_skills"
    /\ pos > Len(discovery.skills_without_commands)
    /\ sync_pc' = "generate_skills"
    /\ pos' = 1
    /\ skills_created' = 0
    /\ commands_created' = 0
    /\ errors' = <<>>
    /\ UNCHANGED <<notSync, dry_run, use_thoughtbox, command_files, skill_files,
                   temp_files, discovery, intents, result>>

\* What generate_skill_from_command / generate_command_from_skill can do:
\* write the file and return True, return False, or raise.
GenerationOutcomes == {"created", "failed", "raised"}

\* one iteration of "for cmd in discovery.commands_without_skills" (phase 2)
GenerateSkill ==
    /\ sync_pc = "generate_skills"
    /\ pos <= Len(discovery.commands_without_skills)
    /\ LET cmd == discovery.commands_without_skills[pos] IN
         IF dry_run
           THEN /\ skills_created' = skills_created + 1
                /\ UNCHANGED <<skill_files, errors>>
           ELSE \E outcome \in GenerationOutcomes :
                  /\ skill_files' = IF outcome = "created"
                                      THEN skill_files \cup {cmd} ELSE skill_files
                  /\ skills_created' = IF outcome = "created"
                                         THEN skills_created + 1 ELSE skills_created
                  /\ errors' = IF outcome = "created" THEN errors
                               ELSE Append(errors, <<outcome, "skill", cmd>>)
    /\ pos' = pos + 1
    /\ UNCHANGED <<notSync, dry_run, use_thoughtbox, command_files, temp_files,
                   sync_pc, discovery, intents, commands_created, result>>

EndGenerateSkills ==
    /\ sync_pc = "generate_skills"
    /\ pos > Len(discovery.commands_without_skills)
    /\ sync_pc' = "generate_commands"
    /\ pos' = 1
    /\ UNCHANGED <<notSync, dry_run, use_thoughtbox, command_files, skill_files,
                   temp_files, discovery, intents, skills_created,
                   commands_created, errors, result>>

\* one iteration of "for skill in discovery.skills_without_commands" (phase 2)
GenerateCommand ==
    /\ sync_pc = "generate_commands"
    /\ pos <= Len(discovery.skills_without_commands)
    /\ LET skill == discovery.skills_without_commands[pos] IN
         IF dry_run
           THEN /\ commands_created' = commands_created + 1
                /\ UNCHANGED <<command_files, errors>>
           ELSE \E outcome \in GenerationOutcomes :
                  /\ command_files' = IF outcome = "created"
                                        THEN command_files \cup {skill}
                                        ELSE command_files
                  /\ commands_created' = IF outcome = "created"
                                           THEN commands_created + 1
                                           ELSE commands_created
                  /\ errors' = IF outcome = "created" THEN errors
                               ELSE Append(errors, <<outcome, "command", skill>>)
    /\ pos' = pos + 1
    /\ UNCHANGED <<notSync, dry_run, use_thoughtbox, skill_files, temp_files,
                   sync_pc, discovery, intents, skills_created, result>>

\* phase_2_generation returns its SyncResult
EndGenerateCommands ==
    /\ sync_pc = "generate_commands"
    /\ pos > Len(discovery.skills_without_commands)
    /\ result' = SyncResult(skills_created, commands_created, errors)
    /\ sync_pc' = "phase3"
    /\ UNCHANGED <<notSync, dry_run, use_thoughtbox, command_files, skill_files,
                   temp_files, discovery, pos, intents, skills_created,
                   commands_created, errors>>

\* phase_3_validation (it returns at once in a dry run and only reads
\* otherwise) and the summary of run
Phase3Validation ==
    /\ sync_pc = "phase3"
    /\ sync_pc' = "done"
    /\ UNCHANGED <<notSync, dry_run, use_thoughtbox, command_files, skill_files,
                   temp_files, discovery, pos, intents, skills_created,
                   commands_created, errors, result>>

SyncNext ==
    \/ Phase0Discovery
    \/ Phase1Start
    \/ AnalyzeCommand
    \/ EndAnalyzeCommands
    \/ AnalyzeSkill
    \/ EndAnalyzeSkills
    \/ GenerateSkill
    \/ EndGenerateSkills
    \/ GenerateCommand
    \/ EndGenerateCommands
    \/ Phase3Validation

SyncSpec == SyncInit /\ [][SyncNext]_vars

\* phase_1_reasoning has returned
Phase1Returned ==
    sync_pc \in {"generate_skills", "generate_commands", "phase3"}
      \/ (sync_pc = "done" /\ discovery.total_gaps > 0)

\* --------------------------------------------------------------- claim C25
\* C25 (as claimed): in a dry run no file and no directory is created, from
\* discovery to validation, while every gap item is counted as created.
C25_DryRunCreatesNothing ==
    (dry_run /\ sync_pc # "phase0") =>
       /\ temp_files = {}
       /\ command_files = Range(discovery.commands)
       /\ skill_files = Range(discovery.skills)
       /\ sync_pc = "done" =>
             /\ result.skills_created = Len(discovery.commands_without_skills)
             /\ result.commands_created = Len(discovery.skills_without_commands)

\* --------------------------------------------------------------- claim C30
\* C30: while phase_1_reasoning runs every item handled so far has its
\* Intent, and when it has returned intents holds exactly one Intent, under
\* its own name, of type "command" for every command without a skill and of
\* type "skill" for every skill without a command, and nothing else; without
\* Thoughtbox every one of them is the fallback Intent.
C30_OneIntentPerGap ==
    /\ sync_pc = "analyze_commands" =>
          DOMAIN intents
             = { discovery.commands_without_skills[k] : k \in 1..(pos - 1) }
    /\ sync_pc = "analyze_skills" =>
          DOMAIN intents
             = Range(discovery.commands_without_skills)
                 \cup { discovery.skills_without_commands[k] : k \in 1..(pos - 1) }
    /\ Phase1Returned =>
          /\ DOMAIN intents = Range(discovery.commands_without_skills)
                                \cup Range(discovery.skills_without_commands)
          /\ \A n \in Range(discovery.commands_without_skills) :
                intents[n].name = n /\ intents[n].type = "command"
          /\ \A n \in Range(discovery.skills_without_commands) :
                intents[n].name = n /\ intents[n].type = "skill"
          /\ ~use_thoughtbox =>
                \A n \in DOMAIN intents : intents[n].purpose = "fallback"

\* phase 1 has returned with the fallback Intent of a command whose analysis
\* failed and the analysed Intent of a skill
C30_Witness ==
    /\ sync_pc = "generate_skills"
    /\ \E a \in DOMAIN intents : \E b \in DOMAIN intents :
          /\ intents[a].type = "command" /\ intents[a].purpose = "fallback"
          /\ intents[b].type = "skill" /\ intents[b].purpose = "analysed"

\* ======================================================================
\* SkillOrchestrator.generate_skill (orchestrator.py)
\* ======================================================================
notGen == <<pipelineVars, syncVars, modeVars>>

SkillName == "docs-skill"

\* if groups is None: groups = ["read", "edit"]
Groups(args) == IF args.groups = <<None>> THEN <<"read", "edit">> ELSE args.groups

\* if output_dir is None: output_dir = Path(self.settings.output_dir) / skill_name
OutputDir(args) ==
    IF args.output_dir = <<None>> THEN <<".roo/skills", args.skill_name>>
                                  ELSE args.output_dir

\* skill_path = output_dir / "SKILL.md"
SkillPath(args) == OutputDir(args) \o <<"SKILL.md">>

\* class SkillGenerationResult(BaseModel): validation_report is declared as
\* a ValidationReport without Optional and without default, so the
\* constructor raises pydantic's ValidationError when it is given None.
ValidResult(fields) == fields.validation_report # None

GenInit ==
    /\ gen_args \in [skill_name : {SkillName},
                     max_pages : 1..MaxPages,
                     output_dir : {<<None>>, <<"out">>},
                     groups : {<<None>>, <<"read">>},
                     skill_type : {"coding-agent", "domain-knowledge"}]
    /\ gen_pc = "extract"
    /\ gen_done = <<>>
    /\ gen_exc = None
    /\ gen_result = None
    /\ PipelineIdle /\ SyncIdle /\ ModeIdle

\* What a phase does next: it hands over to the following one or its
\* exception is taken to the except clause.
PhaseEnds(phase, following, exc) ==
    /\ gen_done' = Append(gen_done, phase)
    /\ IF exc = None
         THEN /\ gen_pc' = following
              /\ UNCHANGED gen_exc
         ELSE /\ gen_pc' = "except"
              /\ gen_exc' = exc
    /\ UNCHANGED <<notGen, gen_args, gen_result>>

\* Phase 1: self.llms_generator.extract_knowledge(url, max_pages), which
\* returns a bundle or raises RetryError or ValueError
Phase1Extract ==
    /\ gen_pc = "extract"
    /\ \E exc \in {None, "RetryError", "ValueError"} :
         PhaseEnds("extract", "research", exc)

\* Phase 2: self.ecosystem_researcher.research_ecosystem(...)
Phase2Research ==
    /\ gen_pc = "research"
    /\ \E exc \in {None, "ResearchError"} : PhaseEnds("research", "create", exc)

\* Phase 3: self.skill_creator.create_skill(...)
Phase3Create ==
    /\ gen_pc = "create"
    /\ \E exc \in {None, "SynthesisError"} : PhaseEnds("create", "write", exc)

\* Phase 4: self._write_skill_files(output_dir, skill_bundle)
Phase4Write ==
    /\ gen_pc = "write"
    /\ \E exc \in {None, "OSError"} : PhaseEnds("write", "register", exc)

\* Phase 5: register_mode, which reports a failure in its result, and the
\* return of the result
Phase5Register ==
    /\ gen_pc = "register"
    /\ gen_done' = Append(gen_done, "register")
    /\ \E report \in {"passed", "failed"} :
         LET fields == [success |-> TRUE,
                        skill_path |-> SkillPath(gen_args),
                        mode_slug |-> gen_args.skill_name,
                        validation_report |-> report,
                        error |-> None]
         IN  IF ValidResult(fields)
               THEN /\ gen_result' = fields
                    /\ gen_pc' = "returned"
                    /\ UNCHANGED gen_exc
               ELSE /\ gen_exc' = "ValidationError"
                    /\ gen_pc' = "except"
                    /\ UNCHANGED gen_result
    /\ UNCHANGED <<notGen, gen_args>>

\* except Exception as e: return SkillGenerationResult(success=False,
\* skill_path="", mode_slug=skill_name, validation_report=None, error=str(e));
\* an exception raised inside the except clause leaves generate_skill.
HandleException ==
    /\ gen_pc = "except"
    /\ LET fields == [success |-> FALSE,
                      skill_path |-> <<>>,
                      mode_slug |-> gen_args.skill_name,
                      validation_report |-> None,
                      error |-> gen_exc]
       IN  IF ValidResult(fields)
             THEN /\ gen_result' = fields
                  /\ gen_pc' = "returned"
                  /\ gen_exc' = None
             ELSE /\ gen_exc' = "ValidationError"
                  /\ gen_pc' = "propagated"
                  /\ UNCHANGED gen_result
    /\ UNCHANGED <<notGen, gen_args, gen_done>>

GenNext ==
    \/ Phase1Extract
    \/ Phase2Research
    \/ Phase3Create
    \/ Phase4Write
    \/ Phase5Register
    \/ HandleException

GenSpec == GenInit /\ [][GenNext]_vars

\* --------------------------------------------------------------- claim C28
\* C28 (as claimed): no exception leaves generate_skill: when a phase has
\* raised, the call ends by returning a result with success = False and the
\* error text, no later phase having been executed.
C28_NeverPropagates ==
    /\ gen_pc # "propagated"
    /\ (gen_pc = "returned" /\ Len(gen_done) < 5) =>
          /\ gen_result.success = FALSE
          /\ gen_result.error # None

\* ======================================================================
\* ModeConfigurator (mode_configurator.py)
\* ======================================================================
notMode == <<pipelineVars, syncVars, genVars>>

\* The slugs the calls are made for.
SlugPool == <<"docs-skill", "api-skill", "cli-skill">>

Slugs == Range(SlugPool)

\* A mode entry of customModes: new_mode, of which the slug and the
\* skill_ref path are kept.
NewMode(skill_name, skill_path) == [slug |-> skill_name, path |-> skill_path]

\* The .roomodes file: absent, not JSON, or a JSON object with or without
\* the key customModes.
MissingFile == [state |-> "missing", hasKey |-> FALSE, customModes |-> <<>>]

InvalidFile == [state |-> "invalid", hasKey |-> FALSE, customModes |-> <<>>]

JsonFile(hasKey, modes) == [state |-> "json", hasKey |-> hasKey, customModes |-> modes]

\* The states of the SKILL.md file a call is made with.
SkillFiles == {"valid", "missing", "no_frontmatter", "too_long"}

\* _write_roomodes: open(..., 'w') may fail before the file is touched,
\* json.dump may fail after it was truncated.
WriteOutcomes == {"ok", "open_fails", "dump_fails"}

\* _read_roomodes raises FileNotFoundError or json.JSONDecodeError
ReadRaises(file) == file.state # "json"

\* config.get("customModes", [])
CustomModes(config) == IF config.hasKey THEN config.customModes ELSE <<>>

\* Mutant of _check_duplicate_slug: no slug is ever found.
CheckDuplicateSlug_Never(config, slug) == FALSE

\* _check_duplicate_slug: any(mode.get("slug") == slug for mode in custom_modes)
CheckDuplicateSlug(config, slug) ==
    \E k \in 1..Len(CustomModes(config)) : CustomModes(config)[k].slug = slug

\* _validate_yaml_frontmatter
ValidateYamlFrontmatter(skill) == skill \in {"valid", "too_long"}

\* _check_file_size
CheckFileSize(skill) == skill \in {"valid", "no_frontmatter"}

\* all(checks.values()) and len(errors) == 0
AllChecksPassed(checks, errs) ==
    /\ \A k \in DOMAIN checks : checks[k]
    /\ Len(errs) = 0

\* validate_integration: the checks made, the errors and the warnings
ValidateIntegration(file, skill_name, skill) ==
    LET exists == skill # "missing"
        fileChecks ==
            IF exists
              THEN [skill_file_exists |-> TRUE,
                    valid_frontmatter |-> ValidateYamlFrontmatter(skill),
                    file_size_ok |-> CheckFileSize(skill)]
              ELSE [skill_file_exists |-> FALSE]
        noDuplicate == IF ReadRaises(file) THEN FALSE
                       ELSE ~CheckDuplicateSlug(file, skill_name)
        checks == fileChecks @@ [no_duplicate_slug |-> noDuplicate]
        errs ==
            (IF ~exists THEN <<"SKILL.md not found">> ELSE <<>>)
            \o (IF exists /\ ~ValidateYamlFrontmatter(skill)
                  THEN <<"Invalid or missing YAML frontmatter">> ELSE <<>>)
            \o (IF ReadRaises(file) THEN <<"Failed to read .roomodes">>
                ELSE IF ~noDuplicate THEN <<"Slug already exists">> ELSE <<>>)
        warnings == IF exists /\ ~CheckFileSize(skill)
                      THEN <<"SKILL.md exceeds 500 lines">> ELSE <<>>
    IN  [all_checks_passed |-> AllChecksPassed(checks, errs),
         checks |-> checks,
         warnings |-> warnings,
         errors |-> errs]

\* ModeRegistrationResult
ModeRegistrationResult(success, slug, validation, err) ==
    [success |-> success, slug |-> slug,
     validation_report |-> validation, error |-> err]

\* Sequences over the slugs without a repeated slug, up to a length.
DistinctSlugSeqs(n) ==
    {q \in UNION {[1..m -> Slugs] : m \in 0..n} :
        \A a, b \in 1..Len(q) : a # b => q[a] # q[b]}

SkillPathOf(slug) == <<".roo/skills", slug, "SKILL.md">>

ModeInit ==
    /\ \E q \in DistinctSlugSeqs(2), form \in {"missing", "nokey", "json"} :
         roomodes = CASE form = "missing" -> MissingFile
                      [] form = "nokey" -> JsonFile(FALSE, <<>>)
                      [] OTHER -> JsonFile(TRUE,
                                    [k \in 1..Len(q) |->
                                       NewMode(q[k], SkillPathOf(q[k]))])
    /\ calls = 0
    /\ registration = None
    /\ PipelineIdle /\ SyncIdle /\ GenIdle

\* register_mode(skill_name, skill_path, role_definition, groups)
RegisterMode ==
    /\ calls < MaxCalls
    /\ calls' = calls + 1
    /\ \E skill_name \in Slugs, skill \in SkillFiles, written \in WriteOutcomes :
         LET validation == ValidateIntegration(roomodes, skill_name, skill)
             config == JsonFile(TRUE,
                          Append(CustomModes(roomodes),
                                 NewMode(skill_name, SkillPathOf(skill_name))))
         IN  IF ~validation.all_checks_passed
               THEN /\ registration' =
                         ModeRegistrationResult(FALSE, skill_name, validation,
                                                "Validation failed")
                    /\ UNCHANGED roomodes
               ELSE IF ReadRaises(roomodes) \/ written = "open_fails"
                 THEN /\ registration' =
                           ModeRegistrationResult(FALSE, skill_name, validation,
                                                  "OSError")
                      /\ UNCHANGED roomodes
               ELSE IF written = "dump_fails"
                 THEN /\ registration' =
                           ModeRegistrationResult(FALSE, skill_name, validation,
                                                  "TypeError")
                      /\ roomodes' = InvalidFile
               ELSE /\ registration' =
                         ModeRegistrationResult(TRUE, skill_name, validation, None)
                    /\ roomodes' = config
    /\ UNCHANGED notMode

ModeNext == RegisterMode

ModeSpec == ModeInit /\ [][ModeNext]_vars

\* --------------------------------------------------------------- claim C29
\* The slugs of the entries of customModes are pairwise different.
NoTwoSameSlug(file) ==
    \A a, b \in 1..Len(file.customModes) :
        a # b => file.customModes[a].slug # file.customModes[b].slug

\* The slug is the slug of an entry of the file.
Registered(file, slug) ==
    /\ file.state = "json"
    /\ \E k \in 1..Len(file.customModes) : file.customModes[k].slug = slug

\* C29: starting from a .roomodes file without two entries of the same slug,
\* customModes never holds two entries of the same slug, whatever
\* register_mode calls are made; a call for a slug that is already registered
\* fails validation, returns success = False and leaves the file unchanged.
C29_NoDuplicateSlugs ==
    /\ [](NoTwoSameSlug(roomodes))
    /\ [][(calls' = calls + 1 /\ Registered(roomodes, registration'.slug)) =>
            /\ registration'.success = FALSE
            /\ registration'.validation_report.all_checks_passed = FALSE
            /\ registration'.validation_report.checks.no_duplicate_slug = FALSE
            /\ roomodes' = roomodes]_vars

\* A slug was registered by a call and a later call for a registered slug,
\* made with a valid SKILL.md, was turned down for the duplicate alone.
C29_Witness ==
    /\ calls >= 2
    /\ registration.success = FALSE
    /\ Registered(roomodes, registration.slug)
    /\ registration.validation_report.errors = <<"Slug already exists">>
    /\ registration.validation_report.checks.valid_frontmatter
    /\ registration.validation_report.checks.file_size_ok
    /\ Len(roomodes.customModes) = 3

====
